---- MODULE Spec2Model ----
(***************************************************************************)
(* goad-balancer: the host-routing gateway (cmd/api) and the identity echo *)
(* service (app).  Strings are sequences of one-character strings, so that *)
(* lowercasing, trimming, host:port splitting and bracket trimming are     *)
(* computed character by character as the Go code computes them.           *)
(***************************************************************************)
EXTENDS Integers, Sequences, FiniteSets, TLC

VARIABLES
    hostRoutes,   \* newHandler's map literal, captured by the GET / closure
    reqs,         \* gateway: one record per request slot (goroutine)
    cRaw,         \* canonicalHost study: the raw host string
    cOut,         \* canonicalHost(cRaw), once computed
    cAgain,       \* canonicalHost(cOut), once computed
    cResp,        \* the GET / handler's response for Host cRaw, once computed
    envAPP,       \* echo service: the APP environment variable
    appName,      \* echo service: main's appName, once started
    stdout,       \* echo service: lines written to the process's stdout
    echoLast      \* echo service: the last request served and its response

vars == <<hostRoutes, reqs, cRaw, cOut, cAgain, cResp, envAPP, appName, stdout, echoLast>>

gwVars == <<hostRoutes, reqs>>
canonVars == <<cRaw, cOut, cAgain, cResp>>
echoVars == <<envAPP, appName, stdout, echoLast>>

----------------------------------------------------------------------------
(* Bounds of the input domains. *)

MaxFree == 4      \* free raw host strings: every string over Sigma up to this length
MaxPre == 1       \* decoration characters before a host name
MaxPost == 3      \* decoration characters after a host name
NumReqs == 2      \* request slots served concurrently by the gateway
MaxEchoOut == 3   \* lines the echo service's stdout keeps in the model

----------------------------------------------------------------------------
(* Characters and string helpers. *)

UpperLetters == <<"A","B","C","D","E","F","G","H","I","J","K","L","M",
                  "N","O","P","Q","R","S","T","U","V","W","X","Y","Z">>
LowerLetters == <<"a","b","c","d","e","f","g","h","i","j","k","l","m",
                  "n","o","p","q","r","s","t","u","v","w","x","y","z">>

IsUpper(c) == \E i \in 1..26 : UpperLetters[i] = c

\* unicode.ToLower on one ASCII character
LowerChar(c) ==
    IF IsUpper(c)
    THEN LowerLetters[CHOOSE i \in 1..26 : UpperLetters[i] = c]
    ELSE c

\* a plausible slip: the case is not folded
LowerNone(s) == s

\* strings.ToLower
ToLower(s) == [i \in 1..Len(s) |-> LowerChar(s[i])]

\* unicode.IsSpace, restricted to the ASCII white space characters
WhiteSpace == {" ", "\t", "\n", "\f", "\r"}
IsSpace(c) == c \in WhiteSpace

\* s[i:j] of Go, with 0-based i (inclusive) and j (exclusive)
Slice(s, i, j) == SubSeq(s, i + 1, j)

\* number of leading characters of s that satisfy "in cut"
RECURSIVE LeadIn(_, _)
LeadIn(s, cut) ==
    IF s = <<>> \/ s[1] \notin cut THEN 0 ELSE 1 + LeadIn(Tail(s), cut)

\* number of trailing characters of s that satisfy "in cut"
RECURSIVE TrailIn(_, _)
TrailIn(s, cut) ==
    IF s = <<>> \/ s[Len(s)] \notin cut THEN 0
    ELSE 1 + TrailIn(SubSeq(s, 1, Len(s) - 1), cut)

\* strings.TrimSpace: drop leading and trailing white space
TrimSpace(s) ==
    LET a == LeadIn(s, WhiteSpace)
    IN  IF a = Len(s) THEN <<>>
        ELSE SubSeq(s, a + 1, Len(s) - TrailIn(s, WhiteSpace))

\* a plausible slip: remove one matched pair "[" ... "]" instead of the whole cutset
TrimOnePair(s, cut) ==
    IF Len(s) >= 2 /\ s[1] = "[" /\ s[Len(s)] = "]"
    THEN SubSeq(s, 2, Len(s) - 1)
    ELSE s

\* strings.Trim(s, cutset): drop every leading and trailing character of the cutset
Trim(s, cut) ==
    LET a == LeadIn(s, cut)
    IN  IF a = Len(s) THEN <<>>
        ELSE SubSeq(s, a + 1, Len(s) - TrailIn(s, cut))

\* strings.IndexByte: 0-based index of the first c in s, or -1
IndexByte(s, c) ==
    IF \E i \in 1..Len(s) : s[i] = c
    THEN (CHOOSE i \in 1..Len(s) : s[i] = c /\ \A j \in 1..(i - 1) : s[j] # c) - 1
    ELSE -1

\* strings.LastIndexByte: 0-based index of the last c in s, or -1
LastIndexByte(s, c) ==
    IF \E i \in 1..Len(s) : s[i] = c
    THEN (CHOOSE i \in 1..Len(s) : s[i] = c /\ \A j \in (i + 1)..Len(s) : s[j] # c) - 1
    ELSE -1

----------------------------------------------------------------------------
(* net.SplitHostPort, as canonicalHost calls it. *)

AddrErr(why) == [ok |-> FALSE, host |-> <<>>, port |-> <<>>, err |-> why]

SplitHostPort(hostport) ==
    LET n == Len(hostport)
        i == LastIndexByte(hostport, ":")
    IN  IF i < 0 THEN AddrErr("missing port in address")
        ELSE IF hostport[1] = "["
        THEN LET end == IndexByte(hostport, "]")
             IN  IF end < 0 THEN AddrErr("missing ']' in address")
                 ELSE IF end + 1 = n THEN AddrErr("missing port in address")
                 ELSE IF end + 1 # i
                 THEN IF hostport[end + 2] = ":"
                      THEN AddrErr("too many colons in address")
                      ELSE AddrErr("missing port in address")
                 ELSE IF IndexByte(Slice(hostport, 1, n), "[") >= 0
                 THEN AddrErr("unexpected '[' in address")
                 ELSE IF IndexByte(Slice(hostport, end + 1, n), "]") >= 0
                 THEN AddrErr("unexpected ']' in address")
                 ELSE [ok |-> TRUE, host |-> Slice(hostport, 1, end),
                       port |-> Slice(hostport, i + 1, n), err |-> ""]
        ELSE LET host == Slice(hostport, 0, i)
             IN  IF IndexByte(host, ":") >= 0
                 THEN AddrErr("too many colons in address")
                 ELSE IF IndexByte(hostport, "[") >= 0
                 THEN AddrErr("unexpected '[' in address")
                 ELSE IF IndexByte(hostport, "]") >= 0
                 THEN AddrErr("unexpected ']' in address")
                 ELSE [ok |-> TRUE, host |-> host,
                       port |-> Slice(hostport, i + 1, n), err |-> ""]

----------------------------------------------------------------------------
(* cmd/api/main.go: canonicalHost. *)

Brackets == {"[", "]"}

\* a plausible slip: the host:port split is left out
canonicalHostNoSplit(raw) == Trim(TrimSpace(ToLower(raw)), Brackets)

canonicalHost(raw) ==
    LET h == TrimSpace(ToLower(raw))
    IN  IF h = <<>> THEN <<>>
        ELSE LET sp == SplitHostPort(h)
             IN  IF sp.ok THEN Trim(sp.host, Brackets)
                 ELSE Trim(h, Brackets)

----------------------------------------------------------------------------
(* cmd/api/main.go: newHandler's route table and the GET / handler. *)

Mango == <<"m","a","n","g","o",".","c","o","m">>
Apple == <<"a","p","p","l","e",".","c","o","m">>
NotMango == <<"n","o","t","m","a","n","g","o",".","c","o","m">>

\* hostRoutes := map[string]string{...}
InitialRoutes == (Mango :> "site-mango") @@ (Apple :> "site-apple")

\* an HTTP response: status, Content-Type, and the body by kind
\*   "host"   : JSON of hostResponse   {host, route}
\*   "health" : JSON of healthResponse {status, time}
\*   "text"   : plain text
\*   "none"   : no body
Response(status, ctype, kind, host, route, hstatus, time, text) ==
    [status |-> status, ctype |-> ctype, kind |-> kind,
     host |-> host, route |-> route, hstatus |-> hstatus, time |-> time, text |-> text]

NoResp == Response(0, "", "none", <<>>, "", "", "", "")

\* http.NotFound(w, r)
NotFoundResp ==
    Response(404, "text/plain; charset=utf-8", "text", <<>>, "", "", "", "404 page not found")

\* json.NewEncoder(w).Encode(hostResponse{Host: host, Route: route}) after a 200
HostResp(host, route) ==
    Response(200, "application/json", "host", host, route, "", "", "")

\* json.NewEncoder(w).Encode(healthResponse{Status: "ok", Time: now}) after a 200
HealthResp(now) ==
    Response(200, "application/json", "health", <<>>, "", "ok", now, "")

\* route, ok := hostRoutes[host]: a missing key reads as the zero value ""
Lookup(routes, host) ==
    IF host \in DOMAIN routes
    THEN [route |-> routes[host], ok |-> TRUE]
    ELSE [route |-> "", ok |-> FALSE]

\* a plausible slip: the ok flag of the map read is ignored
RootRespondUnchecked(host, lk) == HostResp(host, lk.route)

\* the GET / handler after the map read: 404 unless ok, else 200 with the JSON body
RootRespond(host, lk) ==
    IF ~lk.ok THEN NotFoundResp ELSE HostResp(host, lk.route)

\* the GET / handler run from start to end on one request
HandleRoot(rawHost, routes) ==
    LET host == canonicalHost(rawHost)
    IN  RootRespond(host, Lookup(routes, host))

----------------------------------------------------------------------------
(* cmd/api/main.go: newHandler's ServeMux.  A path is its sequence of segments: *)
(* "/" is <<>>, "/health" is <<"health">>.                                       *)

RootPath == <<>>
HealthPath == <<"health">>
OtherPath == <<"other">>

\* the two registrations: "GET /health" names one path, "GET /" (ending in a slash)
\* names the whole subtree under "/"
Patterns ==
    {[handler |-> "health", method |-> "GET", path |-> HealthPath, subtree |-> FALSE],
     [handler |-> "root", method |-> "GET", path |-> RootPath, subtree |-> TRUE]}

IsPrefix(p, s) == Len(p) <= Len(s) /\ SubSeq(s, 1, Len(p)) = p

PathMatches(pat, path) ==
    IF pat.subtree THEN IsPrefix(pat.path, path) ELSE pat.path = path

\* a GET pattern also matches HEAD
MethodMatches(pat, method) ==
    pat.method = method \/ (pat.method = "GET" /\ method = "HEAD")

\* a plausible slip: "GET /" registered for the root path only (as "GET /{$}" is)
MuxMatchExactRoot(method, path) ==
    IF method \notin {"GET", "HEAD"} THEN "405"
    ELSE IF path = HealthPath THEN "health"
    ELSE IF path = RootPath THEN "root"
    ELSE "404"

\* a plausible slip: the catch-all pattern wins over the more specific one
MuxMatchCatchAllFirst(method, path) ==
    IF method \notin {"GET", "HEAD"} THEN "405" ELSE "root"

\* ServeMux: the most specific pattern matching method and path; with none, 405 when
\* some pattern matches the path under another method, else 404
MuxFind(patterns, method, path) ==
    LET ms == {pat \in patterns : PathMatches(pat, path) /\ MethodMatches(pat, method)}
    IN  IF ms # {}
        THEN (CHOOSE pat \in ms : \A q \in ms : Len(q.path) <= Len(pat.path)).handler
        ELSE IF \E pat \in patterns : PathMatches(pat, path) THEN "405"
        ELSE "404"

\* the gateway's mux
MuxMatch(method, path) == MuxFind(Patterns, method, path)

\* the mux's own answers
MethodNotAllowedResp ==
    Response(405, "text/plain; charset=utf-8", "text", <<>>, "", "", "", "Method Not Allowed")

\* what the client receives: the server sends no body in answer to HEAD
Delivered(method, resp) ==
    IF method = "HEAD"
    THEN [resp EXCEPT !.kind = "none", !.host = <<>>, !.route = "",
                      !.hstatus = "", !.time = "", !.text = ""]
    ELSE resp

----------------------------------------------------------------------------
(* Raw host strings the model feeds to canonicalHost and to the gateway. *)

Sigma == {"a", "A", "8", ":", "[", "]", " "}
Deco == {" ", "[", "]", ":", "8"}

Strs(A, n) == UNION {[1..k -> A] : k \in 0..n}

UpperChar(c) ==
    IF \E i \in 1..26 : LowerLetters[i] = c
    THEN UpperLetters[CHOOSE i \in 1..26 : LowerLetters[i] = c]
    ELSE c
ToUpper(s) == [i \in 1..Len(s) |-> UpperChar(s[i])]

HostNames == {Mango, ToUpper(Mango), Apple, ToUpper(Apple), NotMango}

Decorated ==
    {p \o c \o q : p \in Strs(Deco, MaxPre), c \in HostNames, q \in Strs(Deco, MaxPost)}

RawHosts == Strs(Sigma, MaxFree) \cup Decorated

----------------------------------------------------------------------------
(* The gateway serving requests concurrently, one goroutine per request slot. *)

Methods == {"GET", "HEAD", "POST"}
Paths == {RootPath, HealthPath, OtherPath}
GwHosts == {Mango, ToUpper(Apple) \o <<":", "8">>, NotMango, <<>>}
Clock == {"t1", "t2"}

GwIdle == [r \in 1..NumReqs |->
             [pc |-> "idle", method |-> "", path |-> <<>>, rawHost |-> <<>>,
              handler |-> "", host |-> <<>>, resp |-> NoResp]]

EchoIdle ==
    /\ envAPP = [set |-> FALSE, value |-> ""]
    /\ appName = ""
    /\ stdout = <<>>
    /\ echoLast = [pc |-> "off", method |-> "", path |-> RootPath, resp |-> NoResp]

CanonIdle ==
    /\ cRaw = <<>>
    /\ cOut = <<>>
    /\ cAgain = <<>>
    /\ cResp = [pc |-> "off", resp |-> NoResp]

Init ==
    /\ hostRoutes = InitialRoutes
    /\ reqs = GwIdle
    /\ CanonIdle
    /\ EchoIdle

\* a request arrives and the mux picks its handler
Accept(r) ==
    /\ reqs[r].pc = "idle"
    /\ \E m \in Methods, p \in Paths, h \in GwHosts :
          reqs' = [reqs EXCEPT ![r] =
                     [pc |-> "routed", method |-> m, path |-> p, rawHost |-> h,
                      handler |-> MuxMatch(m, p), host |-> <<>>, resp |-> NoResp]]
    /\ UNCHANGED <<hostRoutes, canonVars, echoVars>>

\* no pattern matches the method (or the path): the mux answers by itself
MuxAnswer(r) ==
    /\ reqs[r].pc = "routed"
    /\ reqs[r].handler \in {"404", "405"}
    /\ reqs' = [reqs EXCEPT ![r].pc = "done",
                            ![r].resp = Delivered(reqs[r].method,
                                IF reqs[r].handler = "405" THEN MethodNotAllowedResp
                                ELSE NotFoundResp)]
    /\ UNCHANGED <<hostRoutes, canonVars, echoVars>>

\* the GET /health handler
Health(r) ==
    /\ reqs[r].pc = "routed"
    /\ reqs[r].handler = "health"
    /\ \E now \in Clock :
          reqs' = [reqs EXCEPT ![r].pc = "done",
                               ![r].resp = Delivered(reqs[r].method, HealthResp(now))]
    /\ UNCHANGED <<hostRoutes, canonVars, echoVars>>

\* a plausible slip: host is a variable shared by all calls of the closure
RootCanonShared(r) ==
    /\ reqs[r].pc = "routed"
    /\ reqs[r].handler = "root"
    /\ reqs' = [q \in 1..NumReqs |->
                  IF q = r
                  THEN [reqs[q] EXCEPT !.pc = "lookup",
                                       !.host = canonicalHost(reqs[r].rawHost)]
                  ELSE [reqs[q] EXCEPT !.host = canonicalHost(reqs[r].rawHost)]]
    /\ UNCHANGED <<hostRoutes, canonVars, echoVars>>

\* the GET / handler: host := canonicalHost(r.Host)
RootCanon(r) ==
    /\ reqs[r].pc = "routed"
    /\ reqs[r].handler = "root"
    /\ reqs' = [reqs EXCEPT ![r].pc = "lookup",
                            ![r].host = canonicalHost(reqs[r].rawHost)]
    /\ UNCHANGED <<hostRoutes, canonVars, echoVars>>

\* the GET / handler: the map read and the response
RootLookup(r) ==
    /\ reqs[r].pc = "lookup"
    /\ reqs' = [reqs EXCEPT ![r].pc = "done",
                            ![r].resp = Delivered(reqs[r].method,
                                RootRespond(reqs[r].host, Lookup(hostRoutes, reqs[r].host)))]
    /\ UNCHANGED <<hostRoutes, canonVars, echoVars>>

\* the client has read the response; the slot serves the next request
Finish(r) ==
    /\ reqs[r].pc = "done"
    /\ reqs' = [reqs EXCEPT ![r] = GwIdle[r]]
    /\ UNCHANGED <<hostRoutes, canonVars, echoVars>>

Next ==
    \E r \in 1..NumReqs :
        \/ Accept(r)
        \/ MuxAnswer(r)
        \/ Health(r)
        \/ RootCanon(r)
        \/ RootLookup(r)
        \/ Finish(r)

Spec == Init /\ [][Next]_vars

----------------------------------------------------------------------------
(* app/main.go: the identity echo service. *)

\* the environment the process may be started in: APP unset, empty, or a name
EnvAPPs ==
    {[set |-> FALSE, value |-> ""]} \cup
    {[set |-> TRUE, value |-> v] : v \in {"", "mango", "apple", "banana"}}

\* os.Getenv: the value, or "" when the variable is not set
Getenv(e) == IF e.set THEN e.value ELSE ""

\* the single registration of the echo service
EchoPatterns ==
    {[handler |-> "root", method |-> "GET", path |-> RootPath, subtree |-> TRUE]}

\* fmt.Sprintf("This is the %s application", appName)
EchoLine(name) == "This is the " \o name \o " application"

\* a handler that returns without writing: 200, empty body, no Content-Type
EmptyOkResp == Response(200, "", "none", <<>>, "", "", "", "")

InitEcho ==
    /\ hostRoutes = InitialRoutes
    /\ reqs = GwIdle
    /\ CanonIdle
    /\ envAPP \in EnvAPPs
    /\ appName = ""
    /\ stdout = <<>>
    /\ echoLast = [pc |-> "off", method |-> "", path |-> RootPath, resp |-> NoResp]

\* main up to ListenAndServe: appName from APP, "unknown" when empty
EchoMain ==
    /\ echoLast.pc = "off"
    /\ appName' = (IF Getenv(envAPP) = "" THEN "unknown" ELSE Getenv(envAPP))
    /\ echoLast' = [echoLast EXCEPT !.pc = "listening"]
    /\ UNCHANGED <<envAPP, stdout, gwVars, canonVars>>

\* the GET / handler: fmt.Printf writes the line to the process's standard output and
\* nothing to the ResponseWriter
EchoGet ==
    /\ echoLast.pc \in {"listening", "served"}
    /\ Len(stdout) < MaxEchoOut
    /\ \E m \in Methods, p \in Paths :
          /\ MuxFind(EchoPatterns, m, p) = "root"
          /\ stdout' = Append(stdout, EchoLine(appName))
          /\ echoLast' = [pc |-> "served", method |-> m, path |-> p,
                          resp |-> Delivered(m, EmptyOkResp)]
    /\ UNCHANGED <<envAPP, appName, gwVars, canonVars>>

\* any other method: the mux answers 405
EchoMuxAnswer ==
    /\ echoLast.pc \in {"listening", "served"}
    /\ \E m \in Methods, p \in Paths :
          /\ MuxFind(EchoPatterns, m, p) = "405"
          /\ echoLast' = [pc |-> "served", method |-> m, path |-> p,
                          resp |-> Delivered(m, MethodNotAllowedResp)]
    /\ UNCHANGED <<envAPP, appName, stdout, gwVars, canonVars>>

NextEcho == EchoMain \/ EchoGet \/ EchoMuxAnswer

SpecEcho == InitEcho /\ [][NextEcho]_vars

\* the configured name: the value of APP, or "unknown" when APP is absent or empty
ConfiguredName == IF envAPP.set /\ envAPP.value # "" THEN envAPP.value ELSE "unknown"

\* C5: on every GET / to the echo service the response body is exactly
\* "This is the {name} application", {name} being APP or "unknown".
C5_EchoBody ==
    echoLast.pc = "served" /\ echoLast.method = "GET" /\ echoLast.path = RootPath
        => /\ echoLast.resp.status = 200
           /\ echoLast.resp.kind = "text"
           /\ echoLast.resp.text = "This is the " \o ConfiguredName \o " application"

----------------------------------------------------------------------------
(* Properties of the gateway under concurrent requests (Spec). *)

Slots == 1..NumReqs
Done(r) == reqs[r].pc = "done"

\* the response to one request when it is the only one served; the time of a health
\* body is whatever the clock reads
Alone(method, path, rawHost) ==
    LET h == MuxMatch(method, path)
    IN  {Delivered(method, x) :
            x \in IF h = "health" THEN {HealthResp(now) : now \in Clock}
                  ELSE IF h = "root" THEN {HandleRoot(rawHost, InitialRoutes)}
                  ELSE IF h = "405" THEN {MethodNotAllowedResp}
                  ELSE {NotFoundResp}}

C6_NoInterference ==
    /\ hostRoutes = InitialRoutes
    /\ \A r \in Slots :
          /\ reqs[r].pc = "lookup" => reqs[r].host = canonicalHost(reqs[r].rawHost)
          /\ Done(r) => reqs[r].resp \in Alone(reqs[r].method, reqs[r].path, reqs[r].rawHost)

C6_Witness ==
    \E r \in Slots : \E q \in Slots :
        /\ r # q
        /\ Done(r)
        /\ reqs[r].method = "GET"
        /\ reqs[r].resp.status = 404
        /\ reqs[q].pc = "lookup"
        /\ reqs[q].host = Apple

\* C7: GET /health always returns 200 with a JSON body whose status is "ok" and a
\* non-empty Content-Type, whatever the Host; it is never answered by the host-routing
\* handler and never yields 404.
C7_HealthAlwaysOk ==
    \A r \in Slots :
        /\ reqs[r].pc # "idle" /\ reqs[r].method = "GET" /\ reqs[r].path = HealthPath
             => reqs[r].handler = "health"
        /\ Done(r) /\ reqs[r].method = "GET" /\ reqs[r].path = HealthPath
             => /\ reqs[r].resp.status = 200
                /\ reqs[r].resp.kind = "health"
                /\ reqs[r].resp.hstatus = "ok"
                /\ reqs[r].resp.ctype # ""

C7_Witness ==
    \E r \in Slots :
        /\ Done(r)
        /\ reqs[r].method = "GET"
        /\ reqs[r].path = HealthPath
        /\ reqs[r].rawHost = NotMango
        /\ reqs[r].resp.status = 200
        /\ reqs[r].resp.hstatus = "ok"

----------------------------------------------------------------------------
(* canonicalHost and the GET / handler applied to one raw host string. *)

InitCanon ==
    /\ hostRoutes = InitialRoutes
    /\ reqs = GwIdle
    /\ EchoIdle
    /\ cRaw \in RawHosts
    /\ cOut = <<>>
    /\ cAgain = <<>>
    /\ cResp = [pc |-> "start", resp |-> NoResp]

\* out := canonicalHost(raw)
Canonicalize ==
    /\ cResp.pc = "start"
    /\ cOut' = canonicalHost(cRaw)
    /\ cResp' = [cResp EXCEPT !.pc = "canon"]
    /\ UNCHANGED <<cRaw, cAgain, gwVars, echoVars>>

\* again := canonicalHost(out)
Recanonicalize ==
    /\ cResp.pc = "canon"
    /\ cAgain' = canonicalHost(cOut)
    /\ cResp' = [cResp EXCEPT !.pc = "again"]
    /\ UNCHANGED <<cRaw, cOut, gwVars, echoVars>>

\* GET / with Host: raw, served alone
ServeRoot ==
    /\ cResp.pc = "again"
    /\ cResp' = [pc |-> "served", resp |-> HandleRoot(cRaw, hostRoutes)]
    /\ UNCHANGED <<cRaw, cOut, cAgain, gwVars, echoVars>>

NextCanon == Canonicalize \/ Recanonicalize \/ ServeRoot

SpecCanon == InitCanon /\ [][NextCanon]_vars

----------------------------------------------------------------------------
(* Properties of canonicalHost and of GET / served alone (SpecCanon). *)

canonDone == cResp.pc # "start"
served == cResp.pc = "served"

AllIn(s, set) == \A i \in 1..Len(s) : s[i] \in set
NoneIn(s, set) == \A i \in 1..Len(s) : s[i] \notin set

HasUpper(s) == \E i \in 1..Len(s) : IsUpper(s[i])

\* the host that is left once the port is cut off, before any bracket is removed
HostAfterPort(raw) ==
    LET h == TrimSpace(ToLower(raw))
        sp == SplitHostPort(h)
    IN  IF h # <<>> /\ sp.ok THEN sp.host ELSE h

\* C1: GET / answers 200 with body {host: k, route: table[k]}, k = canonicalHost(Host),
\* exactly when k is mango.com or apple.com; otherwise (k empty included) it answers
\* 404 with no host/route body.  The host of a 200 body is never empty.
C1_RootRouting ==
    served =>
        LET r == cResp.resp
        IN  IF cOut \in {Mango, Apple}
            THEN /\ r.status = 200
                 /\ r.kind = "host"
                 /\ r.host = cOut
                 /\ r.host # <<>>
                 /\ r.route = (IF cOut = Mango THEN "site-mango" ELSE "site-apple")
            ELSE /\ r.status = 404
                 /\ r.kind # "host"
                 /\ r.host = <<>>
                 /\ r.route = ""

C1_Witness ==
    /\ served
    /\ cRaw = <<" ">> \o ToUpper(Apple) \o <<":", "8">>
    /\ cResp.resp.status = 200
    /\ cResp.resp.route = "site-apple"

\* C2: canonicalHost is idempotent: canonicalHost(canonicalHost(x)) = canonicalHost(x)
\* for every raw host string x.
C2_Idempotent ==
    cResp.pc \in {"again", "served"} => cAgain = cOut

\* C10: every output of canonicalHost is whitespace-trimmed: it has no leading and no
\* trailing white space character.
C10_OutputTrimmed ==
    canonDone /\ cOut # <<>> => ~IsSpace(cOut[1]) /\ ~IsSpace(cOut[Len(cOut)])

\* C8: the output of canonicalHost has no uppercase letter, and a Host value and its
\* case variants (here: the value in all capitals) get the same answer from GET /.
C8_Lowercase ==
    /\ canonDone => ~HasUpper(cOut)
    /\ served => cResp.resp = HandleRoot(ToUpper(cRaw), hostRoutes)

C8_Witness ==
    /\ served
    /\ HasUpper(cRaw)
    /\ cResp.resp.status = 200
    /\ cResp.resp.host = Mango

\* Shapes of a raw host string: optional outer blanks around host, host:port or
\* [host]:port.  A host has no white space, bracket or colon; between brackets it may
\* hold colons (an IPv6 literal); a port has no white space, bracket or colon.
Delims == WhiteSpace \cup Brackets \cup {":"}
IsHost(h) == h # <<>> /\ NoneIn(h, Delims)
IsV6Host(h) == h # <<>> /\ NoneIn(h, WhiteSpace \cup Brackets)
IsBlank(s) == AllIn(s, WhiteSpace)
\* s is ":port" followed by blanks
IsPortSuffix(s) ==
    /\ s # <<>>
    /\ s[1] = ":"
    /\ \E k \in 1..Len(s) :
          /\ NoneIn(SubSeq(s, 2, k), Delims)
          /\ IsBlank(SubSeq(s, k + 1, Len(s)))
\* s is blanks followed by "["
IsOpenBracket(s) ==
    s # <<>> /\ s[Len(s)] = "[" /\ IsBlank(SubSeq(s, 1, Len(s) - 1))
\* s is "]" followed by ":port" and blanks
IsCloseBracketPort(s) ==
    s # <<>> /\ s[1] = "]" /\ IsPortSuffix(Tail(s))

\* C3: for a raw host string of the shape host:port or [host]:port the output of
\* canonicalHost is the (lowercased) host portion alone, without the port, so that
\* GET / answers h, h:port and [h]:port alike, whatever the port.
C3_PortStripped ==
    canonDone =>
        \A i \in {k \in 1..Len(cRaw) : IsBlank(SubSeq(cRaw, 1, k - 1))
                                        \/ IsOpenBracket(SubSeq(cRaw, 1, k - 1))} :
          \A j \in {k \in i..Len(cRaw) : IsBlank(SubSeq(cRaw, k + 1, Len(cRaw)))
                                          \/ cRaw[k + 1] \in {":", "]"}} :
            LET h == SubSeq(cRaw, i, j)
                pre == SubSeq(cRaw, 1, i - 1)
                post == SubSeq(cRaw, j + 1, Len(cRaw))
                bare == IsHost(h) /\ IsBlank(pre) /\ IsBlank(post)
                withPort == IsHost(h) /\ IsBlank(pre) /\ IsPortSuffix(post)
                bracketed == IsV6Host(h) /\ IsOpenBracket(pre) /\ IsCloseBracketPort(post)
            IN  /\ (bare \/ withPort \/ bracketed) => cOut = ToLower(h)
                /\ (withPort \/ (bracketed /\ IsHost(h))) /\ served
                     => cResp.resp = HandleRoot(h, hostRoutes)

C3_Witness ==
    /\ served
    /\ cRaw = <<"[">> \o ToUpper(Mango) \o <<"]", ":", "8">>
    /\ cOut = Mango
    /\ cResp.resp.status = 200

\* C9 as claimed: once the port is removed, exactly one pair of surrounding brackets is
\* removed when the host starts with "[" and ends with "]", and no other bracket is.
C9_OnePairStripped ==
    canonDone => cOut = TrimOnePair(HostAfterPort(cRaw), Brackets)

\* C9 as amended: once the port is removed, every leading and every trailing "[" or "]"
\* is removed (nested pairs and unmatched brackets at either end included), and nothing
\* else is: the output is the host without its bracket-only prefix and suffix.
C9_AllEdgeBracketsStripped ==
    canonDone =>
        LET g == HostAfterPort(cRaw)
        IN  /\ cOut # <<>> => cOut[1] \notin Brackets /\ cOut[Len(cOut)] \notin Brackets
            /\ \E a \in 0..Len(g) : \E b \in 0..(Len(g) - a) :
                  /\ cOut = SubSeq(g, a + 1, Len(g) - b)
                  /\ AllIn(SubSeq(g, 1, a), Brackets)
                  /\ AllIn(SubSeq(g, Len(g) - b + 1, Len(g)), Brackets)

C9_Witness ==
    /\ canonDone
    /\ cRaw = <<"[", "[", "a", "]">>
    /\ cOut = <<"a">>

====
